---- MODULE Spec2Model ----
(***************************************************************************)
(* Model of src/src/components/seatConfig.ts: the loader of events.json,   *)
(* the seat classifier / transformer / aggregators, the configuration      *)
(* assemblers, the filtered views and the cache-clearing refresh.          *)
(*                                                                         *)
(* JavaScript values are encoded as follows.                               *)
(*   null                  <<>>                                            *)
(*   a non-null value v    <<v>>   (fields typed "T | null")               *)
(*   a string of digits    a sequence of one-character strings             *)
(*   Event.seats           [isArray, items, str]: the run-time type tag    *)
(*                         that Array.isArray inspects, with the array or  *)
(*                         the string                                      *)
(*   array index i (0-based) is position i + 1 of a sequence               *)
(***************************************************************************)
EXTENDS Integers, Sequences, FiniteSets, TLC

\* Longest seat sequence handed to the pure seat functions.
MaxSeats == 2
\* Longest event list events.json holds.
MaxEvents == 2

VARIABLES
    \* ---- one call of an exported async function ----
    op,          \* the exported function running, "idle" when none
    pc,          \* position inside the running function
    eventIndex,  \* loadSeatConfigFromJson: the eventIndex parameter after defaulting
    request,     \* the fetch issued by the loader: [v, noCache], <<>> before it
    error,       \* the exception travelling to the enclosing catch, "none" otherwise
    console,     \* last console.error / console.warn message, "" when none
    events,      \* the value loadEventsFromJson resolved with (const events)
    result,      \* the value the exported function resolved with
    threw,       \* TRUE when the exported function rejected instead of resolving
    fetches,     \* fetches issued by the running call
    \* ---- the environment's cache store (window.caches) ----
    hasCaches,   \* 'caches' in window
    cacheStore,  \* names of the caches that exist
    cacheNames,  \* forceRefreshEvents: the names caches.keys() resolved with
    pending,     \* caches.delete promises of the running call not yet settled
    deleted,     \* names whose caches.delete of the running call has resolved
    orphaned,    \* caches.delete promises left behind by a call that already returned
    \* ---- direct application of the pure seat functions ----
    eventSeats,  \* the argument
    fn,          \* the function applied, "none" before
    out          \* its return value

vars == << op, pc, eventIndex, request, error, console, events, result, threw,
           fetches, hasCaches, cacheStore, cacheNames, pending, deleted,
           orphaned, eventSeats, fn, out >>

callVars  == << op, pc, eventIndex, request, error, console, events, result,
                threw, fetches >>
cacheVars == << hasCaches, cacheStore, cacheNames, pending, deleted, orphaned >>
pureVars  == << eventSeats, fn, out >>

JsNull == <<>>
Val(v) == <<v>>

-----------------------------------------------------------------------------
(* Input domains *)

\* price / row_num / seat_num of a seat travel together in the inputs; the
\* prices are the decimal texts "25.50" and "30" and a non-numeric text.
SeatIdentities ==
    { [price |-> <<"2", "5", ".", "5", "0">>, row_num |-> "A", seat_num |-> "A1"],
      [price |-> <<"3", "0">>,                row_num |-> "B", seat_num |-> "B2"],
      [price |-> <<"a", "b", "c">>,           row_num |-> "C", seat_num |-> "C3"] }

XPositions == { -5, -2, 10 }
YPositions == { -3, 20 }

\* interface EventSeat
EventSeat ==
    { [price |-> id.price, row_num |-> id.row_num, seat_num |-> id.seat_num,
       horizontal_position |-> x, vertical_position |-> y, available |-> a] :
        id \in SeatIdentities, x \in XPositions, y \in YPositions, a \in BOOLEAN }

SeqsUpTo(S, n) == UNION { [1..k -> S] : k \in 0..n }

SeatSequences == SeqsUpTo(EventSeat, MaxSeats)

SeatA1 == [price |-> <<"2", "5", ".", "5", "0">>, row_num |-> "A", seat_num |-> "A1",
           horizontal_position |-> 10, vertical_position |-> 20, available |-> TRUE]
SeatB2 == [price |-> <<"3", "0">>, row_num |-> "B", seat_num |-> "B2",
           horizontal_position |-> -5, vertical_position |-> -3, available |-> FALSE]

\* The seat arrays events of events.json carry.
SeatLayouts == { <<>>, <<SeatA1>>, <<SeatA1, SeatB2>> }

ArraySeats(items) == [isArray |-> TRUE, items |-> items, str |-> ""]
StringSeats(s)    == [isArray |-> FALSE, items |-> <<>>, str |-> s]

\* interface Event (title, date, location, link, priceMin are carried untouched
\* and are represented by title alone).
Event ==
    { [title |-> "event", available |-> a, seats |-> s] :
        a \in BOOLEAN,
        s \in { ArraySeats(l) : l \in SeatLayouts } \cup { StringSeats("ieejas biletes") } }

EventLists == SeqsUpTo(Event, MaxEvents)

-----------------------------------------------------------------------------
(* parseFloat on the texts above: optional sign, decimal digits, optional   *)
(* fraction; the longest such prefix is the value, NaN when there is none.  *)
(* The value m / 10^scale is kept with trailing fraction zeros removed, so  *)
(* that "25.50" and "25.5" denote the same number.                          *)

DecimalDigits == { "0", "1", "2", "3", "4", "5", "6", "7", "8", "9" }

DigitValue(c) ==
    CASE c = "0" -> 0 [] c = "1" -> 1 [] c = "2" -> 2 [] c = "3" -> 3
      [] c = "4" -> 4 [] c = "5" -> 5 [] c = "6" -> 6 [] c = "7" -> 7
      [] c = "8" -> 8 [] c = "9" -> 9

RECURSIVE DigitRun(_, _)
DigitRun(s, i) ==
    IF i <= Len(s) /\ s[i] \in DecimalDigits THEN 1 + DigitRun(s, i + 1) ELSE 0

RECURSIVE DigitsValue(_, _, _)
DigitsValue(s, i, n) ==
    IF n = 0 THEN 0 ELSE DigitsValue(s, i, n - 1) * 10 + DigitValue(s[i + n - 1])

NaN == [isNaN |-> TRUE, mantissa |-> 0, scale |-> 0]

RECURSIVE Number(_, _)
Number(m, k) ==
    IF k > 0 /\ m % 10 = 0 THEN Number(m \div 10, k - 1)
    ELSE [isNaN |-> FALSE, mantissa |-> m, scale |-> k]

parseFloat(s) ==
    LET signLen == IF Len(s) >= 1 /\ s[1] \in {"+", "-"} THEN 1 ELSE 0
        negative == signLen = 1 /\ s[1] = "-"
        intLen == DigitRun(s, signLen + 1)
        dotAt == signLen + intLen + 1
        hasDot == dotAt <= Len(s) /\ s[dotAt] = "."
        fracLen == IF hasDot THEN DigitRun(s, dotAt + 1) ELSE 0
        magnitude == DigitsValue(s, signLen + 1, intLen) * (10 ^ fracLen)
                        + DigitsValue(s, dotAt + 1, fracLen)
    IN  IF intLen + fracLen = 0 THEN NaN
        ELSE Number(IF negative THEN 0 - magnitude ELSE magnitude, fracLen)

-----------------------------------------------------------------------------
(* Math helpers *)

\* Math.min(...xs) / Math.max(...xs) for a non-empty argument list
RECURSIVE MathMin(_)
MathMin(xs) ==
    IF Len(xs) = 1 THEN xs[1]
    ELSE LET m == MathMin(Tail(xs)) IN IF xs[1] < m THEN xs[1] ELSE m

RECURSIVE MathMax(_)
MathMax(xs) ==
    IF Len(xs) = 1 THEN xs[1]
    ELSE LET m == MathMax(Tail(xs)) IN IF xs[1] > m THEN xs[1] ELSE m

-----------------------------------------------------------------------------
(* The pure functions of seatConfig.ts *)

hasSpecificSeats_NonEmpty(event) ==
    event.seats.isArray /\ Len(event.seats.items) > 0

hasSpecificSeats(event) == event.seats.isArray

ColorAvailable == "#e0e0e0"
ColorOccupied  == "#ff6b6b"

SeatDataOf(seat, index) ==
    [id     |-> index + 1,
     label  |-> seat.seat_num,
     x      |-> seat.horizontal_position,
     y      |-> seat.vertical_position,
     color  |-> IF seat.available THEN ColorAvailable ELSE ColorOccupied,
     status |-> IF seat.available THEN "available" ELSE "occupied",
     price  |-> parseFloat(seat.price)]

SeatDataOf_ZeroBased(seat, index) ==
    [SeatDataOf(seat, index) EXCEPT !.id = index]

\* Mutant: the id is the 0-based index itself.
transformSeatsToSeatData_ZeroBased(seats) ==
    [i \in 1..Len(seats) |-> SeatDataOf_ZeroBased(seats[i], i - 1)]

\* eventSeats.map((seat, index) => ...): position i holds index i - 1.
transformSeatsToSeatData(seats) ==
    [i \in 1..Len(seats) |-> SeatDataOf(seats[i], i - 1)]

IsAvailable(seat)   == seat.available = TRUE
IsUnavailable(seat) == seat.available = FALSE

getSeatAvailabilityCounts_TotalAvailable(seats) ==
    [availableCount   |-> Len(SelectSeq(seats, IsAvailable)),
     unavailableCount |-> Len(SelectSeq(seats, IsUnavailable)),
     totalCount       |-> Len(SelectSeq(seats, IsAvailable))]

getSeatAvailabilityCounts(seats) ==
    [availableCount   |-> Len(SelectSeq(seats, IsAvailable)),
     unavailableCount |-> Len(SelectSeq(seats, IsUnavailable)),
     totalCount       |-> Len(seats)]

ZeroBounds == [minX |-> 0, maxX |-> 0, minY |-> 0, maxY |-> 0]

\* eventSeats.map(seat => seat.horizontal_position) and its vertical twin
XCoordinates(seats) == [i \in 1..Len(seats) |-> seats[i].horizontal_position]
YCoordinates(seats) == [i \in 1..Len(seats) |-> seats[i].vertical_position]

getSeatCoordinateBounds_FromZero(seats) ==
    IF Len(seats) = 0 THEN ZeroBounds
    ELSE LET xCoordinates == XCoordinates(seats)
             yCoordinates == YCoordinates(seats)
         IN  [minX |-> MathMin(<<0>> \o xCoordinates),
              maxX |-> MathMax(<<0>> \o xCoordinates),
              minY |-> MathMin(<<0>> \o yCoordinates),
              maxY |-> MathMax(<<0>> \o yCoordinates)]

getSeatCoordinateBounds(seats) ==
    IF Len(seats) = 0 THEN ZeroBounds
    ELSE LET xCoordinates == XCoordinates(seats)
             yCoordinates == YCoordinates(seats)
         IN  [minX |-> MathMin(xCoordinates),
              maxX |-> MathMax(xCoordinates),
              minY |-> MathMin(yCoordinates),
              maxY |-> MathMax(yCoordinates)]

-----------------------------------------------------------------------------
(* The configuration assemblers *)

EmptyCounts == [availableCount |-> 0, unavailableCount |-> 0, totalCount |-> 0]

\* The object literal of lines 198-204 (and 235-241).
EmptyConfiguration ==
    [seatConfig         |-> <<>>,
     availabilityCounts |-> EmptyCounts,
     coordinateBounds   |-> ZeroBounds,
     eventInfo          |-> JsNull,
     text               |-> JsNull]

\* Mutant: text carries the availability flag in the seated branch too.
AllEventsMapper_TextForSeated(event, index) ==
    IF hasSpecificSeats(event)
    THEN LET seats == event.seats.items
         IN  [seatConfig         |-> transformSeatsToSeatData(seats),
              availabilityCounts |-> getSeatAvailabilityCounts(seats),
              coordinateBounds   |-> getSeatCoordinateBounds(seats),
              eventInfo          |-> Val(event),
              text               |-> Val(event.available)]
    ELSE [seatConfig         |-> <<>>,
          availabilityCounts |-> EmptyCounts,
          coordinateBounds   |-> ZeroBounds,
          eventInfo          |-> Val(event),
          text               |-> Val(event.available)]

\* The callback of events.map in loadAllEventsConfiguration.
AllEventsMapper(event, index) ==
    IF hasSpecificSeats(event)
    THEN LET seats == event.seats.items
         IN  [seatConfig         |-> transformSeatsToSeatData(seats),
              availabilityCounts |-> getSeatAvailabilityCounts(seats),
              coordinateBounds   |-> getSeatCoordinateBounds(seats),
              eventInfo          |-> Val(event),
              text               |-> JsNull]
    ELSE [seatConfig         |-> <<>>,
          availabilityCounts |-> EmptyCounts,
          coordinateBounds   |-> ZeroBounds,
          eventInfo          |-> Val(event),
          text               |-> Val(event.available)]

\* Mutant: the map skips the first event.
AllEventsConfigurations_SkipFirst(evs) ==
    IF Len(evs) = 0 THEN <<>>
    ELSE [i \in 1..(Len(evs) - 1) |-> AllEventsMapper(evs[i + 1], i)]

\* loadAllEventsConfiguration after the loader resolved with evs.
AllEventsConfigurations(evs) ==
    IF Len(evs) = 0 THEN <<>>
    ELSE [i \in 1..Len(evs) |-> AllEventsMapper(evs[i], i - 1)]

\* events[eventIndex]: undefined (JsNull) outside 0 .. length - 1.
ElementAt(evs, i) ==
    IF i >= 0 /\ i < Len(evs) THEN Val(evs[i + 1]) ELSE JsNull

\* !events[eventIndex]: an Event object is truthy, undefined is falsy.
Falsy(element) == element = JsNull

SelectedEventConfiguration(selectedEvent) ==
    IF hasSpecificSeats(selectedEvent)
    THEN LET seats == selectedEvent.seats.items
         IN  [seatConfig         |-> transformSeatsToSeatData(seats),
              availabilityCounts |-> getSeatAvailabilityCounts(seats),
              coordinateBounds   |-> getSeatCoordinateBounds(seats),
              eventInfo          |-> Val(selectedEvent),
              text               |-> JsNull]
    ELSE [seatConfig         |-> <<>>,
          availabilityCounts |-> EmptyCounts,
          coordinateBounds   |-> ZeroBounds,
          eventInfo          |-> Val(selectedEvent),
          text               |-> Val(selectedEvent.available)]

\* Mutant: a negative index counts from the end of the list.
SeatConfigFromJson_WrapNegative(evs, i) ==
    LET j == IF i < 0 THEN Len(evs) + i ELSE i
    IN  IF Len(evs) = 0 \/ Falsy(ElementAt(evs, j)) THEN EmptyConfiguration
        ELSE SelectedEventConfiguration(ElementAt(evs, j)[1])

\* loadSeatConfigFromJson(i) after the loader resolved with evs.
SeatConfigFromJson(evs, i) ==
    IF Len(evs) = 0 \/ Falsy(ElementAt(evs, i)) THEN EmptyConfiguration
    ELSE SelectedEventConfiguration(ElementAt(evs, i)[1])

\* eventIndex: number = 0
DefaultedIndex(arg) == IF arg = <<>> THEN 0 ELSE arg[1]

-----------------------------------------------------------------------------
(* The filtered views *)

AvailableWithoutSeats(event) == ~hasSpecificSeats(event) /\ event.available

WithoutSeats(event) == ~hasSpecificSeats(event)

\* Mutant: the availability flag is not consulted.
AvailableEventsWithoutSeats_AnyAvailability(evs) == SelectSeq(evs, WithoutSeats)

\* getAvailableEventsWithoutSeats after the loader resolved with evs.
AvailableEventsWithoutSeats(evs) == SelectSeq(evs, AvailableWithoutSeats)

\* getEventsWithSeats after the loader resolved with evs.
EventsWithSeats(evs) == SelectSeq(evs, hasSpecificSeats)

-----------------------------------------------------------------------------
(* The loader: loadEventsFromJson / loadEventsFromJsonWithVersion *)

\* Every exported function but loadEventsFromJsonWithVersion loads through
\* loadEventsFromJson.
Loader(o) ==
    IF o = "loadEventsFromJsonWithVersion" THEN o ELSE "loadEventsFromJson"

\* version?: string
Versions == { <<>>, <<"">>, <<"v1">> }

\* version || new Date().getTime().toString(): undefined and "" are falsy.
VersionParam(version) ==
    IF version = <<>> \/ version[1] = "" THEN "timestamp" ELSE version[1]

\* The fetch of lines 51-58 / 76-82: the ?v= token and the no-cache headers.
Request(token) == [v |-> token, noCache |-> TRUE]

\* The parsed body: a bare array, or an object with an events array.
Bodies == { [isObject |-> w, list |-> l] : w \in BOOLEAN, l \in EventLists }

\* data.events || data: an array is truthy even when empty; an array has no
\* events property.
EventsOrData(data) == data.list

\* Mutant: the catch block rethrows.
LoaderCatch_Rethrow(loader) ==
    [rejects |-> TRUE, value |-> <<>>, log |-> "Error loading events from JSON"]

\* catch (error) { console.error(...); return []; } of either loader.
LoaderCatch(loader) ==
    [rejects |-> FALSE, value |-> <<>>, log |-> "Error loading events from JSON"]

IssueFetch(token) ==
    /\ request' = Request(token)
    /\ fetches' = fetches + 1
    /\ pc' = "fetch"

Call(o) ==
    /\ pc = "idle"
    /\ op' = o
    /\ UNCHANGED << error, console, events, result, threw >>

CallLoadEventsFromJson ==
    /\ Call("loadEventsFromJson")
    /\ IssueFetch("timestamp")
    /\ UNCHANGED << eventIndex, cacheVars, pureVars >>

CallLoadEventsFromJsonWithVersion ==
    \E version \in Versions :
        /\ Call("loadEventsFromJsonWithVersion")
        /\ IssueFetch(VersionParam(version))
        /\ UNCHANGED << eventIndex, cacheVars, pureVars >>

CallLoadAllEventsConfiguration ==
    /\ Call("loadAllEventsConfiguration")
    /\ IssueFetch("timestamp")
    /\ UNCHANGED << eventIndex, cacheVars, pureVars >>

\* The index argument: omitted, or any of -1 .. MaxEvents.
IndexArguments == { <<>> } \cup { <<i>> : i \in -1..MaxEvents }

CallLoadSeatConfigFromJson ==
    \E arg \in IndexArguments :
        /\ Call("loadSeatConfigFromJson")
        /\ eventIndex' = DefaultedIndex(arg)
        /\ IssueFetch("timestamp")
        /\ UNCHANGED << cacheVars, pureVars >>

CallGetAvailableEventsWithoutSeats ==
    /\ Call("getAvailableEventsWithoutSeats")
    /\ IssueFetch("timestamp")
    /\ UNCHANGED << eventIndex, cacheVars, pureVars >>

CallGetEventsWithSeats ==
    /\ Call("getEventsWithSeats")
    /\ IssueFetch("timestamp")
    /\ UNCHANGED << eventIndex, cacheVars, pureVars >>

\* await fetch(...) rejects: a network exception.
FetchReject ==
    /\ pc = "fetch"
    /\ pc' = "catch"
    /\ error' = "network"
    /\ UNCHANGED << op, eventIndex, request, console, events, result, threw,
                    fetches, cacheVars, pureVars >>

\* await fetch(...) resolves; if (!response.ok) throw.
FetchResolve ==
    \E ok \in BOOLEAN :
        /\ pc = "fetch"
        /\ IF ok THEN pc' = "json" /\ error' = error
                 ELSE pc' = "catch" /\ error' = "http"
        /\ UNCHANGED << op, eventIndex, request, console, events, result, threw,
                        fetches, cacheVars, pureVars >>

\* await response.json() rejects: the body does not parse.
JsonReject ==
    /\ pc = "json"
    /\ pc' = "catch"
    /\ error' = "parse"
    /\ UNCHANGED << op, eventIndex, request, console, events, result, threw,
                    fetches, cacheVars, pureVars >>

\* await response.json() resolves; return data.events || data.
JsonResolve ==
    \E data \in Bodies :
        /\ pc = "json"
        /\ events' = EventsOrData(data)
        /\ pc' = "loaded"
        /\ UNCHANGED << op, eventIndex, request, error, console, result, threw,
                        fetches, cacheVars, pureVars >>

\* The loader's catch block.
LoaderCatchStep ==
    /\ pc = "catch"
    /\ LET c == LoaderCatch(Loader(op))
       IN  /\ console' = c.log
           /\ events' = c.value
           /\ threw' = c.rejects
           /\ pc' = IF c.rejects THEN "done" ELSE "loaded"
    /\ UNCHANGED << op, eventIndex, request, error, result, fetches,
                    cacheVars, pureVars >>

-----------------------------------------------------------------------------
(* The continuation of each exported function after the loader resolved.   *)
(* The loader never rejects and events is an array, so the catch blocks of *)
(* lines 183-186, 233-242, 250-253 and 261-264 are never entered.          *)

Finish(o) ==
    /\ pc = "loaded"
    /\ op = o
    /\ pc' = "done"
    /\ UNCHANGED << op, eventIndex, request, error, events, threw, fetches,
                    cacheVars, pureVars >>

FinishLoader ==
    /\ op \in { "loadEventsFromJson", "loadEventsFromJsonWithVersion" }
    /\ Finish(op)
    /\ result' = events
    /\ UNCHANGED console

FinishLoadAllEventsConfiguration ==
    /\ Finish("loadAllEventsConfiguration")
    /\ result' = AllEventsConfigurations(events)
    /\ console' = IF Len(events) = 0 THEN "No events found" ELSE console

FinishLoadSeatConfigFromJson ==
    /\ Finish("loadSeatConfigFromJson")
    /\ result' = SeatConfigFromJson(events, eventIndex)
    /\ console' = IF Len(events) = 0 \/ Falsy(ElementAt(events, eventIndex))
                  THEN "No event found at index" ELSE console

FinishGetAvailableEventsWithoutSeats ==
    /\ Finish("getAvailableEventsWithoutSeats")
    /\ result' = AvailableEventsWithoutSeats(events)
    /\ UNCHANGED console

FinishGetEventsWithSeats ==
    /\ Finish("getEventsWithSeats")
    /\ result' = EventsWithSeats(events)
    /\ UNCHANGED console

FinishForceRefreshEvents ==
    /\ Finish("forceRefreshEvents")
    /\ result' = events
    /\ UNCHANGED console

\* The promise of the exported function settles; the next call starts afresh.
\* caches.delete promises still unsettled live on in the environment.
Return ==
    /\ pc = "done"
    /\ op' = "idle"
    /\ pc' = "idle"
    /\ eventIndex' = 0
    /\ request' = <<>>
    /\ error' = "none"
    /\ console' = ""
    /\ events' = <<>>
    /\ result' = <<>>
    /\ threw' = FALSE
    /\ fetches' = 0
    /\ cacheNames' = {}
    /\ deleted' = {}
    /\ orphaned' = orphaned \cup pending
    /\ pending' = {}
    /\ UNCHANGED << hasCaches, cacheStore, pureVars >>

-----------------------------------------------------------------------------
(* forceRefreshEvents and the cache store *)

CacheNameUniverse == { "pages", "assets" }

\* Mutant: the deletions are not awaited.
AllDeletionsFulfilled_NotAwaited(unsettled) == TRUE

\* await Promise.all(...) continues once every caches.delete promise has
\* resolved (a rejection leaves through the catch block instead).
AllDeletionsFulfilled(unsettled) == unsettled = {}

\* if ('caches' in window) ... else straight to the loader.
CallForceRefreshEvents ==
    /\ Call("forceRefreshEvents")
    /\ IF hasCaches
       THEN /\ pc' = "keys"
            /\ UNCHANGED << request, fetches >>
       ELSE IssueFetch("timestamp")
    /\ UNCHANGED << eventIndex, cacheVars, pureVars >>

\* await caches.keys() resolves; cacheNames.map(...) starts every deletion.
KeysResolve ==
    /\ pc = "keys"
    /\ cacheNames' = cacheStore
    /\ pending' = cacheStore
    /\ pc' = "deleting"
    /\ UNCHANGED << op, eventIndex, request, error, console, events, result,
                    threw, fetches, hasCaches, cacheStore, deleted, orphaned,
                    pureVars >>

\* await caches.keys() rejects.
KeysReject ==
    /\ pc = "keys"
    /\ error' = "cache"
    /\ pc' = "refreshCatch"
    /\ UNCHANGED << op, eventIndex, request, console, events, result, threw,
                    fetches, cacheVars, pureVars >>

\* One caches.delete(cacheName) resolves (true or false): the cache is gone.
DeleteResolve ==
    \E name \in pending :
        /\ cacheStore' = cacheStore \ {name}
        /\ pending' = pending \ {name}
        /\ deleted' = deleted \cup {name}
        /\ UNCHANGED << callVars, hasCaches, cacheNames, orphaned, pureVars >>

\* One caches.delete(cacheName) rejects: Promise.all rejects at once, the
\* other deletions stay in flight.
DeleteReject ==
    \E name \in pending :
        /\ pending' = pending \ {name}
        /\ IF pc = "deleting"
           THEN pc' = "refreshCatch" /\ error' = "cache"
           ELSE UNCHANGED << pc, error >>
        /\ UNCHANGED << op, eventIndex, request, console, events, result, threw,
                        fetches, hasCaches, cacheStore, cacheNames, deleted,
                        orphaned, pureVars >>

\* Promise.all resolves; return await loadEventsFromJson() issues the fetch.
DeletionsDone ==
    /\ pc = "deleting"
    /\ AllDeletionsFulfilled(pending)
    /\ IssueFetch("timestamp")
    /\ UNCHANGED << op, eventIndex, error, console, events, result, threw,
                    cacheVars, pureVars >>

\* catch (error) { console.error(...); return []; } of forceRefreshEvents.
RefreshCatch ==
    /\ pc = "refreshCatch"
    /\ console' = "Error force refreshing events"
    /\ result' = <<>>
    /\ pc' = "done"
    /\ UNCHANGED << op, eventIndex, request, error, events, threw, fetches,
                    cacheVars, pureVars >>

\* A deletion left behind by an earlier call settles.
OrphanSettle ==
    \E name \in orphaned, resolves \in BOOLEAN :
        /\ orphaned' = orphaned \ {name}
        /\ cacheStore' = IF resolves THEN cacheStore \ {name} ELSE cacheStore
        /\ UNCHANGED << callVars, hasCaches, cacheNames, pending, deleted,
                        pureVars >>

\* Other code of the page opens a cache.
EnvCacheOpen ==
    \E name \in CacheNameUniverse \ cacheStore :
        /\ cacheStore' = cacheStore \cup {name}
        /\ UNCHANGED << callVars, hasCaches, cacheNames, pending, deleted,
                        orphaned, pureVars >>

-----------------------------------------------------------------------------
(* Specifications *)

InitCall ==
    /\ op = "idle"
    /\ pc = "idle"
    /\ eventIndex = 0
    /\ request = <<>>
    /\ error = "none"
    /\ console = ""
    /\ events = <<>>
    /\ result = <<>>
    /\ threw = FALSE
    /\ fetches = 0

NoCaches ==
    /\ hasCaches = FALSE
    /\ cacheStore = {}
    /\ cacheNames = {}
    /\ pending = {}
    /\ deleted = {}
    /\ orphaned = {}

InitPure ==
    /\ eventSeats = <<>>
    /\ fn = "none"
    /\ out = <<>>

LoaderStep ==
    \/ FetchReject
    \/ FetchResolve
    \/ JsonReject
    \/ JsonResolve
    \/ LoaderCatchStep

\* The entry points that load and reshape: no cache store is involved.
Init == InitCall /\ NoCaches /\ InitPure

Next ==
    \/ CallLoadEventsFromJson
    \/ CallLoadEventsFromJsonWithVersion
    \/ CallLoadAllEventsConfiguration
    \/ CallLoadSeatConfigFromJson
    \/ CallGetAvailableEventsWithoutSeats
    \/ CallGetEventsWithSeats
    \/ LoaderStep
    \/ FinishLoader
    \/ FinishLoadAllEventsConfiguration
    \/ FinishLoadSeatConfigFromJson
    \/ FinishGetAvailableEventsWithoutSeats
    \/ FinishGetEventsWithSeats
    \/ Return

Spec == Init /\ [][Next]_vars

\* forceRefreshEvents, called again and again, in an environment with or
\* without a cache store that other code of the page uses too.
InitRefresh ==
    /\ InitCall
    /\ hasCaches \in BOOLEAN
    /\ cacheStore \in SUBSET CacheNameUniverse
    /\ cacheNames = {}
    /\ pending = {}
    /\ deleted = {}
    /\ orphaned = {}
    /\ InitPure

NextRefresh ==
    \/ CallForceRefreshEvents
    \/ KeysResolve
    \/ KeysReject
    \/ DeleteResolve
    \/ DeleteReject
    \/ DeletionsDone
    \/ RefreshCatch
    \/ LoaderStep
    \/ FinishForceRefreshEvents
    \/ OrphanSettle
    \/ EnvCacheOpen
    \/ Return

SpecRefresh == InitRefresh /\ [][NextRefresh]_vars

\* The pure seat functions applied to every seat sequence up to MaxSeats.
ApplyTransformSeatsToSeatData ==
    /\ fn = "none"
    /\ fn' = "transformSeatsToSeatData"
    /\ out' = transformSeatsToSeatData(eventSeats)
    /\ UNCHANGED << eventSeats, callVars, cacheVars >>

ApplyGetSeatAvailabilityCounts ==
    /\ fn = "none"
    /\ fn' = "getSeatAvailabilityCounts"
    /\ out' = getSeatAvailabilityCounts(eventSeats)
    /\ UNCHANGED << eventSeats, callVars, cacheVars >>

ApplyGetSeatCoordinateBounds ==
    /\ fn = "none"
    /\ fn' = "getSeatCoordinateBounds"
    /\ out' = getSeatCoordinateBounds(eventSeats)
    /\ UNCHANGED << eventSeats, callVars, cacheVars >>

InitSeats ==
    /\ InitCall
    /\ NoCaches
    /\ eventSeats \in SeatSequences
    /\ fn = "none"
    /\ out = <<>>

NextSeats ==
    \/ ApplyTransformSeatsToSeatData
    \/ ApplyGetSeatAvailabilityCounts
    \/ ApplyGetSeatCoordinateBounds

SpecSeats == InitSeats /\ [][NextSeats]_vars

-----------------------------------------------------------------------------
(* Properties *)

Loaders == { "loadEventsFromJson", "loadEventsFromJsonWithVersion" }

\* The (loaded event, configuration) pairs the finished call produced.
ProducedPairs ==
    IF pc = "done" /\ ~threw /\ op = "loadAllEventsConfiguration"
    THEN { <<events[i], result[i]>> : i \in (DOMAIN events) \cap (DOMAIN result) }
    ELSE IF pc = "done" /\ ~threw /\ op = "loadSeatConfigFromJson"
            /\ eventIndex >= 0 /\ eventIndex < Len(events)
    THEN { <<events[eventIndex + 1], result>> }
    ELSE {}

SeatMapShape(c) == Len(c.seatConfig) > 0 /\ c.text = JsNull
TextShape(c)    == Len(c.seatConfig) = 0 /\ c.text \in { Val(TRUE), Val(FALSE) }
ExactlyOneShape(c) ==
    (SeatMapShape(c) \/ TextShape(c)) /\ ~(SeatMapShape(c) /\ TextShape(c))

\* C1 as stated: every configuration produced for a loaded event, whatever the
\* length of its seats array, has exactly one of the shapes {seatConfig
\* non-empty, text null} and {seatConfig empty, text true or false}.
C1_ExactlyOneShape_AnyLength ==
    \A p \in ProducedPairs : ExactlyOneShape(p[2])

\* C1 amended: exactly one of the two shapes holds for every event whose seats
\* field is a non-empty array or a string; an event whose seats field is the
\* empty array gets seatConfig empty with text null, which is neither shape.
C1_ExactlyOneShape_NonEmptyOrString ==
    \A p \in ProducedPairs :
        LET seats == p[1].seats
        IN  /\ (~seats.isArray \/ Len(seats.items) > 0) => ExactlyOneShape(p[2])
            /\ (seats.isArray /\ Len(seats.items) = 0) =>
                   (Len(p[2].seatConfig) = 0 /\ p[2].text = JsNull)

C1_Witness ==
    /\ op = "loadAllEventsConfiguration"
    /\ \E p \in ProducedPairs : p[1].seats.isArray /\ SeatMapShape(p[2])
    /\ \E p \in ProducedPairs : ~p[1].seats.isArray /\ TextShape(p[2])

\* C2: whatever failed (network exception, non-success status, unparsable
\* body), neither loader rejects, and it resolves with the empty list.
C2_LoaderFailsSoft ==
    op \in Loaders =>
        /\ ~threw
        /\ (pc = "done" /\ error \in { "network", "http", "parse" }) =>
               result = <<>>

C2_Witness ==
    /\ op = "loadEventsFromJsonWithVersion"
    /\ pc = "done"
    /\ error = "parse"
    /\ result = <<>>
    /\ ~threw

\* C3: loadSeatConfigFromJson(i) resolves with the fully empty configuration
\* when the loaded list is empty or i is negative or at least its length.
C3_InvalidIndexGivesEmptyConfiguration ==
    ( /\ op = "loadSeatConfigFromJson"
      /\ pc = "done"
      /\ (Len(events) = 0 \/ eventIndex < 0 \/ eventIndex >= Len(events)) )
    => /\ ~threw
       /\ result = [seatConfig |-> <<>>,
                    availabilityCounts |->
                        [availableCount |-> 0, unavailableCount |-> 0, totalCount |-> 0],
                    coordinateBounds |-> [minX |-> 0, maxX |-> 0, minY |-> 0, maxY |-> 0],
                    eventInfo |-> JsNull,
                    text |-> JsNull]

C3_Witness ==
    /\ op = "loadSeatConfigFromJson"
    /\ pc = "done"
    /\ Len(events) = 2
    /\ eventIndex = -1
    /\ result.eventInfo = JsNull

\* C4: loadAllEventsConfiguration returns one configuration per loaded event,
\* the i-th carrying the i-th loaded event as eventInfo.
C4_AllEventsInOrder ==
    (op = "loadAllEventsConfiguration" /\ pc = "done") =>
        /\ ~threw
        /\ Len(result) = Len(events)
        /\ \A i \in 1..Len(events) : result[i].eventInfo = Val(events[i])

C4_Witness ==
    /\ op = "loadAllEventsConfiguration"
    /\ pc = "done"
    /\ Len(events) = 2
    /\ events[1] # events[2]
    /\ Len(result) = 2

\* C5: hasSpecificSeats is true exactly for an array-valued seats field, and
\* text is null exactly when hasSpecificSeats is true and is the event's own
\* availability flag otherwise.
C5_ClassifierAndText ==
    /\ \A i \in 1..Len(events) : hasSpecificSeats(events[i]) = events[i].seats.isArray
    /\ \A p \in ProducedPairs :
        /\ (p[2].text = JsNull) = hasSpecificSeats(p[1])
        /\ ~hasSpecificSeats(p[1]) => p[2].text = Val(p[1].available)

C5_Witness ==
    /\ op = "loadSeatConfigFromJson"
    /\ \E p \in ProducedPairs :
        /\ ~p[1].seats.isArray
        /\ ~p[1].available
        /\ p[2].text = Val(FALSE)

\* r lists s at the positions pos, in increasing order of position.
IsSelection(r, s, pos) ==
    /\ Len(r) = Cardinality(pos)
    /\ \A i \in pos : r[Cardinality({ j \in pos : j < i }) + 1] = s[i]

GeneralAdmissionAndAvailable(s) ==
    { i \in 1..Len(s) : ~s[i].seats.isArray /\ s[i].available }
Seated(s) == { i \in 1..Len(s) : s[i].seats.isArray }

C10_FetchAfterDeletions ==
    (op = "forceRefreshEvents" /\ hasCaches /\ fetches > 0) =>
        /\ pending = {}
        /\ deleted = cacheNames

C10_Witness ==
    /\ op = "forceRefreshEvents"
    /\ hasCaches
    /\ fetches = 1
    /\ Cardinality(cacheNames) = 2
    /\ deleted = cacheNames

\* C6: getSeatAvailabilityCounts(S).totalCount is the length of S and the
\* available and unavailable counts add up to it.
C6_CountsAddUp ==
    fn = "getSeatAvailabilityCounts" =>
        /\ out.totalCount = Len(eventSeats)
        /\ out.availableCount + out.unavailableCount = out.totalCount

C6_Witness ==
    /\ fn = "getSeatAvailabilityCounts"
    /\ Len(eventSeats) = 2
    /\ out.availableCount = 1
    /\ out.unavailableCount = 1

\* C7: the bounds of the empty sequence are all 0; the bounds of a non-empty
\* sequence enclose every seat and each is the coordinate of some seat.
C7_BoundsEncloseAndTouch ==
    fn = "getSeatCoordinateBounds" =>
        LET n == Len(eventSeats)
            X(i) == eventSeats[i].horizontal_position
            Y(i) == eventSeats[i].vertical_position
        IN  /\ n = 0 => out = [minX |-> 0, maxX |-> 0, minY |-> 0, maxY |-> 0]
            /\ n > 0 =>
                /\ \A i \in 1..n : /\ out.minX <= X(i) /\ X(i) <= out.maxX
                                   /\ out.minY <= Y(i) /\ Y(i) <= out.maxY
                /\ \E i \in 1..n : X(i) = out.minX
                /\ \E i \in 1..n : X(i) = out.maxX
                /\ \E i \in 1..n : Y(i) = out.minY
                /\ \E i \in 1..n : Y(i) = out.maxY

C7_Witness ==
    /\ fn = "getSeatCoordinateBounds"
    /\ Len(eventSeats) = 2
    /\ out.minX = -5 /\ out.maxX = -2
    /\ out.minY = -3 /\ out.maxY = -3

\* C8: transformSeatsToSeatData keeps length and order: the record at 0-based
\* position i has id i + 1, the seat's seat_num, positions, and the status and
\* color its availability selects.
C8_TransformKeepsOrder ==
    fn = "transformSeatsToSeatData" =>
        /\ Len(out) = Len(eventSeats)
        /\ \A i \in 0..(Len(eventSeats) - 1) :
            LET seat == eventSeats[i + 1]
                data == out[i + 1]
            IN  /\ data.id = i + 1
                /\ data.label = seat.seat_num
                /\ data.x = seat.horizontal_position
                /\ data.y = seat.vertical_position
                /\ seat.available => (data.status = "available" /\ data.color = "#e0e0e0")
                /\ ~seat.available => (data.status = "occupied" /\ data.color = "#ff6b6b")

C8_Witness ==
    /\ fn = "transformSeatsToSeatData"
    /\ Len(eventSeats) = 2
    /\ eventSeats[1].available /\ ~eventSeats[2].available
    /\ eventSeats[1].seat_num = "A1" /\ eventSeats[2].seat_num = "B2"
    /\ out[1].price = [isNaN |-> FALSE, mantissa |-> 255, scale |-> 1]
    /\ out[2].price = [isNaN |-> FALSE, mantissa |-> 30, scale |-> 0]
    /\ out[2].id = 2

====
